---- MODULE Spec2Model ----
(***************************************************************************)
(* Model of sator.py: the word index (WordsList / Word / Inverted), the    *)
(* grid (Sator) and the backtracking generator (Satorter).                 *)
(*                                                                         *)
(* Strings are sequences of one-character strings.  Python positions are   *)
(* 0-based; a Python index p is read here as element p + 1.  Python None   *)
(* is 0 wherever an object reference (a heap index >= 1) is expected.      *)
(***************************************************************************)
EXTENDS Integers, Sequences, FiniteSets, TLC

\* ------------------------------------------------------------------ bounds
MaxWords == 3
MaxLen == 5
MaxNearMiss == 2
MaxPattern == 2
MaxGrids == 3

\* ------------------------------------------------------ characters, strings
\* Accented characters are named: "a'" is a-acute, "A'" is capital A-acute,
\* "u:" is u-diaeresis, "i^" is i-circumflex, and so on.
CodePoint ==
  [c \in {"a", "b", "e", "i", "o", "u", "A'", "a'", "e'", "i'", "i^", "o'", "o:", "u'", "u:"} |->
     CASE c = "a" -> 97  [] c = "b" -> 98  [] c = "e" -> 101 [] c = "i" -> 105
       [] c = "o" -> 111 [] c = "u" -> 117 [] c = "A'" -> 193 [] c = "a'" -> 225
       [] c = "e'" -> 233 [] c = "i'" -> 237 [] c = "i^" -> 238 [] c = "o'" -> 243
       [] c = "o:" -> 246 [] c = "u'" -> 250 [] c = "u:" -> 252]

DeaccentPairs ==
  << <<"a'", "a">>, <<"e'", "e">>, <<"i'", "i">>, <<"o'", "o">>, <<"u'", "u">>,
     <<"u:", "u">>, <<"i^", "i">>, <<"o:", "o">>, <<"A'", "a">> >>

\* word.replace(x, y) for the pairs k, k + 1, ... in turn, as it acts on one
\* character c of the word (replace rewrites each character on its own)
RECURSIVE replace_from(_, _)
replace_from(c, k) ==
  IF k > Len(DeaccentPairs) THEN c
  ELSE replace_from(IF c = DeaccentPairs[k][1] THEN DeaccentPairs[k][2] ELSE c, k + 1)

deaccent(word) == [i \in 1..Len(word) |-> replace_from(word[i], 1)]

invert(word) == [i \in 1..Len(word) |-> word[Len(word) + 1 - i]]

\* Python slice s[lo:hi] with 0 <= lo (clamped to the length of s)
Slice(s, lo, hi) ==
  LET h == IF hi > Len(s) THEN Len(s) ELSE hi
  IN IF lo >= h THEN << >> ELSE [i \in 1..(h - lo) |-> s[lo + i]]

\* str.__lt__: lexicographic comparison by code point
RECURSIVE StrLess(_, _)
StrLess(s, t) ==
  IF Len(t) = 0 THEN FALSE
  ELSE IF Len(s) = 0 THEN TRUE
  ELSE IF CodePoint[s[1]] < CodePoint[t[1]] THEN TRUE
  ELSE IF CodePoint[s[1]] > CodePoint[t[1]] THEN FALSE
  ELSE StrLess(Tail(s), Tail(t))

\* sorted(): stable insertion sort of a list of strings
RECURSIVE InsertSorted(_, _)
InsertSorted(x, sq) ==
  IF Len(sq) = 0 THEN <<x>>
  ELSE IF StrLess(x, sq[1]) THEN <<x>> \o sq
  ELSE <<sq[1]>> \o InsertSorted(x, Tail(sq))

RECURSIVE sorted(_)
sorted(sq) ==
  IF Len(sq) = 0 THEN << >>
  ELSE InsertSorted(sq[Len(sq)], sorted(SubSeq(sq, 1, Len(sq) - 1)))

RECURSIVE SetToSeq(_)
SetToSeq(S) ==
  IF S = {} THEN << >>
  ELSE LET x == CHOOSE y \in S : TRUE IN <<x>> \o SetToSeq(S \ {x})

\* the caller's list, in some order

\* ------------------------------------------------------------------- inputs
\* The raw words a caller may supply.
Pool ==
  { <<"a", "b">>, <<"b", "a">>, <<"a'", "b">>,
    <<"a", "b", "a">>, <<"b", "a", "b">>,
    <<"a", "a", "b", "b">>, <<"b", "b", "a", "a">>, <<"a", "b", "b", "a">>,
    <<"a", "b", "b", "b", "a">>, <<"a", "a", "b", "a", "a">> }

Letters == {"a", "b"}

WordLists == {S \in SUBSET Pool : Cardinality(S) <= MaxWords}

\* -------------------------------------------------------------------- state
VARIABLES
  pc,             \* "setup" (WordsList.setup running), "gen" (generator running),
                  \* "done" (generator exhausted), "raised" (exception left the generator),
                  \* "api" (index built, the caller uses Sator directly)
  words,          \* WordsList.__init__ argument: the raw words
  length,         \* WordsList.length (= Satorter.length)
  near_miss,      \* Satorter.near_miss
  sorted_words,   \* WordsList._words
  setup_i,        \* number of entries of _words the loop of setup has consumed
  word_objs,      \* heap of Word objects: [original, deaccented, inverted]
  words_content,  \* WordsList.words.content: insertion-ordered dict, as [key, value] entries
  l_and_p,        \* WordsList.l_and_p: (letter, pos) -> set of deaccented strings
  sator_objs,     \* heap of Sator objects: each is its content list
  seed_i,         \* number of entries of words.content the loop of generator has consumed
  stack,          \* active iter_sator_for_central generators, outermost first
  results,        \* Satorter.results
  yielded,        \* the Sator objects the caller has received, in order
  sator_global,   \* TRUE when the module global name "sator" is bound
  script,         \* TRUE when the caller is the __main__ block (binds "sator" per result)
  last_call,      \* the most recent copy_with_word_in_pos call: [src, word, pos, new, ok]
  run,            \* 1 for the first Satorter run, 2 for the second
  prev_yielded,   \* what the first run yielded, rendered as lists of originals
  prev_near_miss  \* near_miss of the first run

vars == <<pc, words, length, near_miss, sorted_words, setup_i, word_objs, words_content,
          l_and_p, sator_objs, seed_i, stack, results, yielded, sator_global, script,
          last_call, run, prev_yielded, prev_near_miss>>

index_vars == <<words, length, sorted_words, setup_i, word_objs, words_content, l_and_p>>
search_vars == <<sator_objs, seed_i, stack, results, yielded, sator_global, last_call>>
run_vars == <<run, prev_yielded, prev_near_miss>>

NoCall == [src |-> 0, word |-> 0, pos |-> 0, new |-> 0, ok |-> TRUE]

\* ------------------------------------------------------------- DictStorage
DictHas(content, item) == \E i \in 1..Len(content) : content[i].key = item

DictGet(content, item) ==
  IF ~DictHas(content, item) THEN 0
  ELSE content[CHOOSE i \in 1..Len(content) : content[i].key = item].value

DictSet(content, item, value) ==
  IF DictHas(content, item)
  THEN [i \in 1..Len(content) |->
          IF content[i].key = item THEN [key |-> item, value |-> value] ELSE content[i]]
  ELSE Append(content, [key |-> item, value |-> value])

\* -------------------------------------------------------- Word and Inverted
\* Word.__len__, and with it the truth value of a Word reference
WordLen(heap, w) == Len(heap[w].deaccented)
Truthy(heap, w) == w # 0 /\ WordLen(heap, w) > 0

is_symmetrical(deaccented) == deaccented = invert(deaccented)

\* a setter that forgets the partner's side
Inverted_set_one_way(heap, obj, value) == [heap EXCEPT ![obj].inverted = value]

\* Inverted.__set__(obj, value), on the heap of Word objects
RECURSIVE Inverted_set(_, _, _)
Inverted_set(heap, obj, value) ==
  LET h1 == [heap EXCEPT ![obj].inverted = value]
  IN IF value # 0 /\ h1[value].inverted = 0 THEN Inverted_set(h1, value, obj) ELSE h1

\* Word(original): the heap with the new object appended
Word_init(heap, original) ==
  LET self == Len(heap) + 1
      d == deaccent(original)
      h1 == Append(heap, [original |-> original, deaccented |-> d, inverted |-> 0])
  IN IF is_symmetrical(d) THEN Inverted_set(h1, self, self) ELSE h1

\* -------------------------------------------------------------- WordsList
WordsList_filter(ws, len) ==
  SelectSeq(sorted(SetToSeq(ws)), LAMBDA w : len = 0 \/ Len(w) = len)

LpGet(lp, key) == IF key \in DOMAIN lp THEN lp[key] ELSE {}

RECURSIVE register_from(_, _, _)
register_from(lp, deaccented, pos) ==
  IF pos >= Len(deaccented) THEN lp
  ELSE LET key == <<deaccented[pos + 1], pos>>
           lp1 == [k \in DOMAIN lp \cup {key} |->
                     IF k = key THEN LpGet(lp, key) \cup {deaccented} ELSE lp[k]]
       IN register_from(lp1, deaccented, pos + 1)

register_word_letter_and_position(lp, deaccented) == register_from(lp, deaccented, 0)

\* one iteration of the loop of WordsList.setup
Setup ==
  /\ pc = "setup"
  /\ setup_i < Len(sorted_words)
  /\ LET word_str == sorted_words[setup_i + 1]
         h1 == Word_init(word_objs, word_str)
         word == Len(h1)
         content1 == DictSet(words_content, h1[word].deaccented, word)
         inverted == DictGet(content1, invert(h1[word].deaccented))
     IN /\ words_content' = content1
        /\ l_and_p' = register_word_letter_and_position(l_and_p, h1[word].deaccented)
        /\ word_objs' = IF Truthy(h1, inverted) THEN Inverted_set(h1, word, inverted) ELSE h1
  /\ setup_i' = setup_i + 1
  /\ UNCHANGED <<pc, words, length, near_miss, sorted_words>>
  /\ UNCHANGED search_vars
  /\ UNCHANGED <<script, run_vars>>

\* ---------------------------------------------------------------- Init
Init ==
  /\ pc = "setup"
  /\ words \in WordLists
  /\ length \in 2..MaxLen
  /\ near_miss \in 0..MaxNearMiss
  /\ script \in BOOLEAN
  /\ sorted_words = WordsList_filter(words, length)
  /\ setup_i = 0
  /\ word_objs = << >>
  /\ words_content = << >>
  /\ l_and_p = << >>
  /\ sator_objs = << >>
  /\ seed_i = 0
  /\ stack = << >>
  /\ results = {}
  /\ yielded = << >>
  /\ sator_global \in (IF script THEN BOOLEAN ELSE {FALSE})
  /\ last_call = NoCall
  /\ run = 1
  /\ prev_yielded = << >>
  /\ prev_near_miss = 0

\* ------------------------------------------------------------------ Sator
\* Sator(length): content defaults to a list of None
Sator_init(sheap, len) == Append(sheap, [i \in 1..len |-> 0])

\* a copy that shares the object
Sator_copy_alias(sheap, self) == [heap |-> sheap, ref |-> self]

\* Sator.__copy__: a new object over a copy of the content list
Sator_copy(sheap, self) == [heap |-> Append(sheap, sheap[self]), ref |-> Len(sheap) + 1]

\* a placement whose center test is off by one
Sator_setitem_center_off(sheap, wheap, self, pos, word) ==
  IF ~Truthy(wheap, wheap[word].inverted)
  THEN [heap |-> sheap, ok |-> FALSE]
  ELSE LET len == Len(sheap[self])
           c1 == [sheap[self] EXCEPT ![pos + 1] = word]
           c2 == IF 2 * pos # len
                 THEN [c1 EXCEPT ![len - pos - 1 + 1] = wheap[word].inverted]
                 ELSE c1
       IN [heap |-> [sheap EXCEPT ![self] = c2], ok |-> TRUE]

\* Sator.__setitem__(pos, word); ok is FALSE when the assert fails
Sator_setitem(sheap, wheap, self, pos, word) ==
  IF ~Truthy(wheap, wheap[word].inverted)
  THEN [heap |-> sheap, ok |-> FALSE]
  ELSE LET len == Len(sheap[self])
           c1 == [sheap[self] EXCEPT ![pos + 1] = word]
           c2 == IF 2 * pos + 1 # len
                 THEN [c1 EXCEPT ![len - pos - 1 + 1] = wheap[word].inverted]
                 ELSE c1
       IN [heap |-> [sheap EXCEPT ![self] = c2], ok |-> TRUE]

\* Sator.copy_with_word_in_pos(word, pos)
copy_with_word_in_pos(sheap, wheap, self, word, pos) ==
  LET c == Sator_copy(sheap, self)
      r == Sator_setitem(c.heap, wheap, c.ref, pos, word)
  IN [heap |-> r.heap, ref |-> c.ref, ok |-> r.ok]

\* the originals of [w for w in self.content if w]
RECURSIVE TruthyOriginals(_, _)
TruthyOriginals(wheap, content) ==
  IF Len(content) = 0 THEN << >>
  ELSE (IF Truthy(wheap, content[1]) THEN <<wheap[content[1]].original>> ELSE << >>)
       \o TruthyOriginals(wheap, Tail(content))

\* Sator.__hash__: the hash of the tuple of words sorted by original; a Word
\* hashes by its original, so the sorted originals stand for the hash
Sator_hash(sheap, wheap, self) == sorted(TruthyOriginals(wheap, sheap[self]))

\* Sator defines no __eq__: equality is object identity
Sator_eq(a, b) == a = b

\* "result in self.results"
InResults(sheap, wheap, res, result) ==
  \E r \in res : Sator_hash(sheap, wheap, r) = Sator_hash(sheap, wheap, result) /\ Sator_eq(r, result)

\* ---------------------------------------------------------------- Satorter
middle_pos == (length + 1) \div 2 - 1

\* "".join(w.deaccented[pos-1] for w in new_sator[pos:self.length - pos])
required_letters(sheap, wheap, new_sator, pos) ==
  LET rows == Slice(sheap[new_sator], pos, length - pos)
  IN [i \in 1..Len(rows) |-> wheap[rows[i]].deaccented[pos - 1 + 1]]

\* a near-miss test that accepts only the ring equal to the tolerance
near_miss_allows_exact(no_words, pos) == no_words /\ near_miss = pos

\* a near-miss test that forgets no_words
near_miss_allows_always(no_words, pos) == near_miss >= pos

\* the near-miss test at the end of the loop of iter_sator_for_central
near_miss_allows(no_words, pos) == no_words /\ near_miss >= pos

Top == stack[Len(stack)]
Pop == SubSeq(stack, 1, Len(stack) - 1)

\* the except clause of generator: print(format_exc()), then print(..., sator),
\* which reads the module global "sator"; unbound, the NameError leaves the generator
Handler ==
  /\ stack' = << >>
  /\ pc' = IF sator_global THEN "gen" ELSE "raised"

\* a result reaches generator: "if result in self.results: continue", else add and yield
Deliver(sheap, result) ==
  IF InResults(sheap, word_objs, results, result)
  THEN UNCHANGED <<results, yielded, sator_global>>
  ELSE /\ results' = results \cup {result}
       /\ yielded' = Append(yielded, result)
       /\ sator_global' = (sator_global \/ script)

\* Satorter(words, near_miss=...) and the first step into generator()
StartGen ==
  /\ pc = "setup"
  /\ setup_i = Len(sorted_words)
  /\ pc' = "gen"
  /\ UNCHANGED index_vars
  /\ UNCHANGED search_vars
  /\ UNCHANGED <<near_miss, script, run_vars>>

\* filters of iter_for_length and of the loop of generator
SeedAdmitted(w) ==
  /\ WordLen(word_objs, w) = length
  /\ word_objs[w].inverted # 0
  /\ ~(length % 2 = 1 /\ ~is_symmetrical(word_objs[w].deaccented))

GenSkip ==
  /\ pc = "gen"
  /\ stack = << >>
  /\ seed_i < Len(words_content)
  /\ ~SeedAdmitted(words_content[seed_i + 1].value)
  /\ seed_i' = seed_i + 1
  /\ UNCHANGED <<pc, near_miss, script, sator_objs, stack, results, yielded, sator_global, last_call>>
  /\ UNCHANGED index_vars
  /\ UNCHANGED run_vars

GenSeed ==
  /\ pc = "gen"
  /\ stack = << >>
  /\ seed_i < Len(words_content)
  /\ SeedAdmitted(words_content[seed_i + 1].value)
  /\ seed_i' = seed_i + 1
  /\ stack' = << [running_word |-> words_content[seed_i + 1].value, pos |-> middle_pos,
                  sator |-> 0, new_sator |-> 0, required |-> << >>, items |-> {},
                  no_words |-> TRUE, at |-> "call"] >>
  /\ UNCHANGED <<pc, near_miss, script, sator_objs, results, yielded, sator_global, last_call>>
  /\ UNCHANGED index_vars
  /\ UNCHANGED run_vars

GenDone ==
  /\ pc = "gen"
  /\ stack = << >>
  /\ seed_i = Len(words_content)
  /\ pc' = "done"
  /\ UNCHANGED <<near_miss, script>>
  /\ UNCHANGED index_vars
  /\ UNCHANGED search_vars
  /\ UNCHANGED run_vars

\* iter_sator_for_central from its entry to its first yield or to the head of its loop
Call ==
  /\ pc = "gen"
  /\ stack # << >>
  /\ Top.at = "call"
  /\ LET f == Top
         h0 == IF f.sator = 0 THEN Sator_init(sator_objs, length) ELSE sator_objs
         sator == IF f.sator = 0 THEN Len(h0) ELSE f.sator
         word == word_objs[f.running_word].inverted
         r == copy_with_word_in_pos(h0, word_objs, sator, word, f.pos)
     IN /\ sator_objs' = r.heap
        /\ last_call' = [src |-> sator, word |-> word, pos |-> f.pos, new |-> r.ref, ok |-> r.ok]
        /\ IF ~r.ok
           THEN /\ Handler
                /\ UNCHANGED <<results, yielded, sator_global>>
           ELSE IF f.pos = 0
           THEN /\ Deliver(r.heap, r.ref)
                /\ stack' = Pop
                /\ pc' = pc
           ELSE LET required == required_letters(r.heap, word_objs, r.ref, f.pos)
                IN /\ stack' = [stack EXCEPT ![Len(stack)] =
                                  [f EXCEPT !.sator = sator, !.new_sator = r.ref,
                                            !.required = required,
                                            !.items = LpGet(l_and_p, <<required[1], f.pos>>),
                                            !.no_words = TRUE, !.at = "loop"]]
                   /\ pc' = pc
                   /\ UNCHANGED <<results, yielded, sator_global>>
  /\ UNCHANGED <<near_miss, script, seed_i>>
  /\ UNCHANGED index_vars
  /\ UNCHANGED run_vars

\* a lookup that trusts the first letter
ItemPasses_first_letter(item, letters, position, len) == ~(len # 0 /\ Len(item) # len)

\* the tests of word_for_letters_in_position on one item of the candidate set
ItemPasses(item, letters, position, len) ==
  /\ ~(len # 0 /\ Len(item) # len)
  /\ LET candidate == DictGet(words_content, item)
     IN Slice(word_objs[candidate].deaccented, position, position + Len(letters)) = letters

\* word_for_letters_in_position(letters, position, length): the items of the
\* candidate set whose Word is yielded (each item yields words.get(item) once)
word_for_letters_in_position(letters, position, len) ==
  {item \in LpGet(l_and_p, <<letters[1], position>>) : ItemPasses(item, letters, position, len)}

\* one iteration of the loop of iter_sator_for_central; the set is iterated in
\* an order the program does not control
LoopItem ==
  /\ pc = "gen"
  /\ stack # << >>
  /\ Top.at = "loop"
  /\ \E item \in Top.items :
       LET f == Top
           rest == f.items \ {item}
           candidate == DictGet(words_content, item)
       IN IF ItemPasses(item, f.required, f.pos, length)
             /\ Truthy(word_objs, word_objs[candidate].inverted)
          THEN stack' = [stack EXCEPT ![Len(stack)] = [f EXCEPT !.items = rest, !.no_words = FALSE]]
                        \o << [running_word |-> candidate, pos |-> f.pos - 1,
                               sator |-> f.new_sator, new_sator |-> 0, required |-> << >>,
                               items |-> {}, no_words |-> TRUE, at |-> "call"] >>
          ELSE stack' = [stack EXCEPT ![Len(stack)] = [f EXCEPT !.items = rest]]
  /\ UNCHANGED <<pc, near_miss, script, sator_objs, seed_i, results, yielded, sator_global, last_call>>
  /\ UNCHANGED index_vars
  /\ UNCHANGED run_vars

\* the candidate set is exhausted: the near-miss yield, and the generator returns
LoopEnd ==
  /\ pc = "gen"
  /\ stack # << >>
  /\ Top.at = "loop"
  /\ Top.items = {}
  /\ IF near_miss_allows(Top.no_words, Top.pos)
     THEN /\ Deliver(sator_objs, Top.new_sator)
     ELSE UNCHANGED <<results, yielded, sator_global>>
  /\ stack' = Pop
  /\ UNCHANGED <<pc, near_miss, script, sator_objs, seed_i, last_call>>
  /\ UNCHANGED index_vars
  /\ UNCHANGED run_vars

\* an exception raised while a seed is being explored (RecursionError,
\* MemoryError, ...) reaches the try statement of generator
Fault ==
  /\ pc = "gen"
  /\ stack # << >>
  /\ Handler
  /\ UNCHANGED <<near_miss, script, sator_objs, seed_i, results, yielded, sator_global, last_call>>
  /\ UNCHANGED index_vars
  /\ UNCHANGED run_vars

\* a grid as the caller sees it: the original of each row, << >> for None
Render(content) ==
  [i \in 1..Len(content) |-> IF content[i] = 0 THEN << >> ELSE word_objs[content[i]].original]

Rendered == [i \in 1..Len(yielded) |-> Render(sator_objs[yielded[i]])]

\* ------------------------------------------------------------ second runs
\* the caller runs the program again on the same word list: a new WordsList
\* and a new Satorter with the same near_miss
Rebuild ==
  /\ pc = "done"
  /\ run = 1
  /\ run' = 2
  /\ prev_yielded' = Rendered
  /\ prev_near_miss' = near_miss
  /\ pc' = "setup"
  /\ setup_i' = 0
  /\ word_objs' = << >>
  /\ words_content' = << >>
  /\ l_and_p' = << >>
  /\ sator_objs' = << >>
  /\ seed_i' = 0
  /\ results' = {}
  /\ yielded' = << >>
  /\ last_call' = NoCall
  /\ UNCHANGED <<words, length, near_miss, sorted_words, stack, sator_global, script>>

\* the caller builds Satorter(words_list, near_miss=k+1) over the index of the first run
NewSatorter ==
  /\ pc = "done"
  /\ run = 1
  /\ run' = 2
  /\ prev_yielded' = Rendered
  /\ prev_near_miss' = near_miss
  /\ near_miss' = near_miss + 1
  /\ pc' = "gen"
  /\ seed_i' = 0
  /\ results' = {}
  /\ yielded' = << >>
  /\ UNCHANGED <<sator_objs, stack, sator_global, script, last_call>>
  /\ UNCHANGED index_vars

\* --------------------------------------------------- direct use of Sator
\* the caller creates Sator(length)
ApiStart ==
  /\ pc = "setup"
  /\ setup_i = Len(sorted_words)
  /\ pc' = "api"
  /\ sator_objs' = Sator_init(sator_objs, length)
  /\ UNCHANGED <<near_miss, script, seed_i, stack, results, yielded, sator_global, last_call>>
  /\ UNCHANGED index_vars
  /\ UNCHANGED run_vars

\* the caller calls g.copy_with_word_in_pos(w, pos) on a grid and a Word it holds
Place ==
  /\ pc = "api"
  /\ Len(sator_objs) < MaxGrids
  /\ \E g \in 1..Len(sator_objs), w \in 1..Len(word_objs), pos \in 0..(length - 1) :
       LET r == copy_with_word_in_pos(sator_objs, word_objs, g, w, pos)
       IN /\ sator_objs' = r.heap
          /\ last_call' = [src |-> g, word |-> w, pos |-> pos, new |-> r.ref, ok |-> r.ok]
  /\ UNCHANGED <<pc, near_miss, script, seed_i, stack, results, yielded, sator_global>>
  /\ UNCHANGED index_vars
  /\ UNCHANGED run_vars

\* ---------------------------------------------------------- specifications
Next == Setup \/ StartGen \/ GenSkip \/ GenSeed \/ GenDone \/ Call \/ LoopItem \/ LoopEnd \/ Fault

Spec == Init /\ [][Next]_vars

\* two runs without injected faults
NextRuns ==
  Setup \/ StartGen \/ GenSkip \/ GenSeed \/ GenDone \/ Call \/ LoopItem \/ LoopEnd
    \/ Rebuild \/ NewSatorter

SpecRuns == Init /\ [][NextRuns]_vars

\* the grid used on its own
InitApi == Init /\ near_miss = 0 /\ ~script

NextApi == Setup \/ ApiStart \/ Place

SpecApi == InitApi /\ [][NextApi]_vars

\* ------------------------------------------------------------------ claims
Grid(k) == sator_objs[yielded[k]]

Complete(g) == \A r \in 1..Len(g) : g[r] # 0

\* the letters of column pos, top to bottom, of a grid without None
Column(g, pos) == [r \in 1..Len(g) |-> word_objs[g[r]].deaccented[pos + 1]]

\* the rings (a row p <= middle_pos and its mirror) with a None row
UnfilledRings(g) == {p \in 0..middle_pos : g[p + 1] = 0 \/ g[Len(g) - p] = 0}

\* C1: with near_miss = 0 every yielded grid has no None slot and, for every
\* pos, its column pos read top to bottom is the normalized word of its row pos.
C1_ExactGridsAreSquares ==
  near_miss = 0 =>
    \A k \in 1..Len(yielded) :
      /\ Complete(Grid(k))
      /\ \A pos \in 0..(length - 1) :
           Column(Grid(k), pos) = word_objs[Grid(k)[pos + 1]].deaccented

\* C2: no two grids yielded in one run are equal under the equality used for
\* deduplication (the same sorted collection of non-null words).
C2_NoEqualGridsYielded ==
  \A i, j \in 1..Len(yielded) :
    i < j => Sator_hash(sator_objs, word_objs, yielded[i]) # Sator_hash(sator_objs, word_objs, yielded[j])

\* C3: a fault raised while a seed is explored never leaves the generator.
C3_FaultNeverPropagates == pc # "raised"

\* C4: a second run over the same word list, length and near_miss yields the
\* same grids in the same order as the first, whatever the order in which the
\* candidate sets are iterated.
C4_Deterministic ==
  (run = 2 /\ pc = "done" /\ near_miss = prev_near_miss) => Rendered = prev_yielded

\* g2 agrees with g on every filled row of g
Extends(g2, g) == Len(g2) = Len(g) /\ \A r \in 1..Len(g) : g[r] # << >> => g2[r] = g[r]

\* C5: every grid yielded with near_miss = k is yielded, as it is or with
\* further rows filled, by the run with near_miss = k + 1 over the same index.
C5_NearMissMonotone ==
  (run = 2 /\ pc = "done" /\ near_miss = prev_near_miss + 1) =>
    \A i \in 1..Len(prev_yielded) :
      \E j \in 1..Len(yielded) : Extends(Rendered[j], prev_yielded[i])

C5_Witness ==
  /\ run = 2 /\ pc = "done" /\ near_miss = prev_near_miss + 1
  /\ \E i \in 1..Len(prev_yielded) : \E r \in 1..length : prev_yielded[i][r] = << >>
  /\ Len(yielded) > Len(prev_yielded)

\* C6: every Word w with a reverse partner p has p's partner set and equal to
\* w (same normalized form), and the reversal of w's normalized form is p's.
C6_PartnerSymmetry ==
  \A w \in 1..Len(word_objs) :
    LET p == word_objs[w].inverted
    IN p # 0 =>
         /\ word_objs[p].inverted # 0
         /\ word_objs[word_objs[p].inverted].deaccented = word_objs[w].deaccented
         /\ invert(word_objs[w].deaccented) = word_objs[p].deaccented

\* the index is built from originals that share a normalized form, and a
\* Word's partner points back at another object than the Word
C6_Witness ==
  /\ pc = "gen"
  /\ \E w \in 1..Len(word_objs) :
       LET p == word_objs[w].inverted
       IN p # 0 /\ p # w /\ word_objs[p].inverted # w

\* C7: g2 = g.copy_with_word_in_pos(w, pos) has g2[pos] = w; off the center
\* g2[N-1-pos] is w's partner; at the center only slot pos is set; a word
\* without partner makes the call fail.
C7_Placement ==
  last_call.new # 0 =>
    LET w == last_call.word
        pos == last_call.pos
        g == sator_objs[last_call.src]
        g2 == sator_objs[last_call.new]
        N == Len(g)
    IN IF word_objs[w].inverted = 0
       THEN ~last_call.ok
       ELSE /\ last_call.ok
            /\ g2[pos + 1] = w
            /\ 2 * pos + 1 # N => g2[N - 1 - pos + 1] = word_objs[w].inverted
            /\ 2 * pos + 1 = N => \A j \in 1..N : j # pos + 1 => g2[j] = g[j]

C7_Witness ==
  /\ pc = "api"
  /\ last_call.new # 0
  /\ last_call.ok
  /\ 2 * last_call.pos + 1 # length
  /\ word_objs[last_call.word].inverted # last_call.word
  /\ sator_objs[last_call.new][length - last_call.pos] = word_objs[last_call.word].inverted

\* the indexed Words (the values of words.content)
Indexed == {words_content[i].value : i \in 1..Len(words_content)}

RECURSIVE SeqsUpTo(_, _)
SeqsUpTo(S, n) ==
  IF n = 0 THEN {<< >>}
  ELSE LET shorter == SeqsUpTo(S, n - 1)
       IN shorter \cup {Append(t, x) : t \in shorter, x \in S}

Patterns == SeqsUpTo(Letters, MaxPattern) \ {<< >>}

Matches(w, letters, position, len) ==
  /\ WordLen(word_objs, w) = len
  /\ Slice(word_objs[w].deaccented, position, position + Len(letters)) = letters

\* C8: on a built index, word_for_letters_in_position(pattern, position,
\* length) yields each indexed Word of that length with the pattern at that
\* position exactly once, and no other Word.
C8_LookupExact ==
  (pc = "gen" /\ seed_i = 0 /\ stack = << >>) =>
    \A letters \in Patterns, position \in 0..(MaxLen - 1), len \in 1..MaxLen :
      \A w \in Indexed :
        Cardinality({item \in word_for_letters_in_position(letters, position, len) :
                       DictGet(words_content, item) = w})
          = IF Matches(w, letters, position, len) THEN 1 ELSE 0

\* a two-letter pattern is found in one Word while another indexed Word has
\* only its first letter at that position
C8_Witness ==
  /\ pc = "gen" /\ seed_i = 0 /\ stack = << >>
  /\ \E letters \in Patterns, position \in 0..(MaxLen - 1) :
       /\ Len(letters) = 2
       /\ \E w \in Indexed : Matches(w, letters, position, length)
       /\ \E w \in Indexed :
            /\ word_objs[w].deaccented[position + 1] = letters[1]
            /\ ~Matches(w, letters, position, length)

\* no indexed Word of the target length with a partner has, from position
\* f.pos on, the letters of column f.pos - 1 of the rows f.pos .. N-1-f.pos
DeadEnd(f) ==
  LET g == sator_objs[f.new_sator]
      n == length - 2 * f.pos
  IN ~\E w \in Indexed :
        /\ WordLen(word_objs, w) = length
        /\ word_objs[w].inverted # 0
        /\ \A i \in 1..n :
             word_objs[w].deaccented[f.pos + i] = word_objs[g[f.pos + i]].deaccented[f.pos]

\* C9: a grid with None rows is yielded exactly when the search ends the
\* candidates of a ring pos >= 1 where no partnered word fits and near_miss >=
\* pos; the None rows are the rings below pos, so at most near_miss rings, and
\* none when near_miss = 0.
C9_NearMissPolicy ==
  [][ /\ LoopEnd =>
           /\ Top.pos >= 1
           /\ Len(yielded') > Len(yielded) <=> (DeadEnd(Top) /\ near_miss >= Top.pos)
      /\ \A k \in 1..Len(yielded') :
           (k > Len(yielded) /\ ~Complete(sator_objs'[yielded'[k]])) =>
             /\ LoopEnd
             /\ DeadEnd(Top) /\ near_miss >= Top.pos
             /\ yielded'[k] = Top.new_sator
             /\ UnfilledRings(sator_objs'[yielded'[k]]) = 0..(Top.pos - 1)
      /\ \A k \in 1..Len(yielded') :
           /\ Cardinality(UnfilledRings(sator_objs'[yielded'[k]])) <= near_miss'
           /\ near_miss' = 0 => Complete(sator_objs'[yielded'[k]])
    ]_vars

\* a dead end at ring 1 was yielded under near_miss = 1, and the run is over
C9_Witness ==
  /\ pc = "done"
  /\ near_miss = 1
  /\ \E k \in 1..Len(yielded) : UnfilledRings(Grid(k)) = {0}

\* C10: copy_with_word_in_pos leaves its grid as it was and returns another
\* object that differs from it at slot pos and its mirror only; the
\* accumulators of the active searches and the yielded grids never change.
C10_CopyOnWrite ==
  [][ /\ \A k \in 1..Len(yielded) : sator_objs'[yielded[k]] = sator_objs[yielded[k]]
      /\ \A i \in 1..Len(stack) :
           stack[i].new_sator # 0 =>
             sator_objs'[stack[i].new_sator] = sator_objs[stack[i].new_sator]
      /\ last_call' # last_call =>
           LET c == last_call'
               src == IF c.src \in DOMAIN sator_objs THEN sator_objs[c.src]
                      ELSE [i \in 1..length |-> 0]
           IN /\ c.new # c.src
              /\ sator_objs'[c.src] = src
              /\ c.ok => \A j \in 1..length :
                           j \notin {c.pos + 1, length - c.pos} => sator_objs'[c.new][j] = src[j]
    ]_vars

\* a candidate was placed into a copy of the accumulator of the frame on top,
\* its search returned, and the accumulator still has its None rows
C10_Witness ==
  /\ pc = "gen"
  /\ stack # << >>
  /\ Top.at = "loop"
  /\ ~Top.no_words
  /\ last_call.ok
  /\ last_call.src = Top.new_sator
  /\ Len(yielded) >= 1
  /\ ~Complete(sator_objs[Top.new_sator])

====
